---- MODULE Spec2Model ----
(***************************************************************************)
(* State-machine model of server.js: the admin CRUD backend for packages,  *)
(* hotels, visas and flights, whose image references point into a remote   *)
(* asset store (Cloudinary), plus the admin credential gate.               *)
(***************************************************************************)
EXTENDS Integers, Sequences, FiniteSets, TLC

\* ---------------------------------------------------------------- bounds
\* Total number of files uploaded in one run.
MaxAssets == 2
\* Longest list of references a caller declares in one form field.
MaxDeclared == 2
\* Longest activities list a package create request carries.
MaxActs == 2
\* Total number of files uploaded in one run of the capacity specification.
CapAssets == 11
\* Longest list of references declared in the capacity specification.
CapDeclared == 1
\* Most packages the store holds when the search is exercised.
MaxCatalogue == 2

\* ------------------------------------------------------ program constants
\* multer's maxCount for the "images" field of packages and hotels.
MaxCount == 10
\* multer's maxCount for the "activityImages" field of packages.
MaxActCount == 50

\* ------------------------------------------------------------------ URLs
\* A URL is a sequence of tokens; a token is a record [k, n].  The kinds:
\*   "host"   scheme, host and the path before the marker
\*   "upload" the "/upload/" marker
\*   "ver"    a version segment "v<digits>/"
\*   "folder" a folder segment "destinations/"
\*   "name"   a file name without extension (n tells names apart)
\*   "ext"    a final extension ".jpg"
\*   "query"  a query string "?..."
Tok(k, n) == [k |-> k, n |-> n]

\* The empty string (also standing for null / undefined: all are falsy).
NoUrl == << >>

\* getPublicId's "no identifier" (null).
NoId == << >>

\* The identifier the storage engine gives the n-th uploaded file
\* (folder "destinations", then a fresh name).
PublicIdOf(n) == << Tok("folder", 0), Tok("name", n) >>

\* The URL (file.path) the storage engine returns for the n-th uploaded file.
UrlOf(n) ==
  << Tok("host", 0), Tok("upload", 0), Tok("ver", n) >> \o PublicIdOf(n)
    \o << Tok("ext", 0) >>

\* A caller-supplied reference that is no asset URL of the store: it has no
\* "/upload/" marker.
BogusUrl == << Tok("host", 1), Tok("name", 0), Tok("ext", 0) >>

\* url.split("?")[0]: everything before the first query token.
StripQuery(url) ==
  LET qs == { i \in 1..Len(url) : url[i].k = "query" }
  IN  IF qs = {} THEN url
      ELSE SubSeq(url, 1, (CHOOSE i \in qs : \A j \in qs : i <= j) - 1)

\* getPublicId: match /\/upload\/(?:v\d+\/)?(.+)\.\w+$/ on the URL without its
\* query string and return the captured group, or null.
getPublicId(url) ==
  LET clean == StripQuery(url)
      n == Len(clean)
      \* start positions of "/upload/" from which the rest can match: the
      \* URL ends in an extension and the capture is not empty
      starts == { p \in 1..n : /\ clean[p].k = "upload"
                               /\ clean[n].k = "ext"
                               /\ p + 1 <= n - 1 }
  IN  IF starts = {} THEN NoId
      ELSE LET p == CHOOSE q \in starts : \A r \in starts : q <= r
               \* the optional version segment is taken when something is
               \* left for the capture
               first == IF clean[p + 1].k = "ver" /\ p + 2 <= n - 1
                          THEN p + 2 ELSE p + 1
           IN  SubSeq(clean, first, n - 1)

\* ----------------------------------------------------------- form fields
\* A text field of a multipart form: absent, the empty string, the JSON
\* encoding of a value v, or a text that is no JSON.
Absent == [k |-> "absent", v |-> << >>]
EmptyText == [k |-> "empty", v |-> << >>]
Json(v) == [k |-> "json", v |-> v]
BadJson == [k |-> "bad", v |-> << >>]

\* A field is truthy unless absent or the empty string.
Truthy(f) == f.k \notin {"absent", "empty"}

\* JSON.parse throws on a text that is no JSON.
ParseThrows(f) == f.k # "json"

\* A title field that is not sent.
NoField == "<absent>"

\* ----------------------------------------------------------------- state
VARIABLES
  packages,   \* Destination collection: id -> [title, thumbnail, images, activities]
  hotels,     \* Hotel collection: id -> [title, images]
  visas,      \* Visa collection: id -> [name, image]
  flights,    \* Flight collection: id -> [logo]
  assets,     \* identifiers of the assets the remote store holds
  nextAsset,  \* number of the next uploaded file
  nextDoc,    \* number of the next inserted document (_id)
  del,        \* the delete request in flight
  upd,        \* the package update requests in flight
  admin,      \* the Admin collection and whether the seeding has run
  last        \* the latest exchange: the request last received or answered

vars == << packages, hotels, visas, flights, assets, nextAsset, nextDoc,
           del, upd, admin, last >>

\* A run follows one document: every handler addresses a single document by
\* its _id and none reads another.  The id names no record before the create
\* request, in the collections of the other kinds, and after the delete.
DocIds == {1}
Kinds == {"package", "hotel", "visa", "flight"}
Reqs == {1, 2}

\* The collection of one kind.
Coll(kind) ==
  CASE kind = "package" -> packages
    [] kind = "hotel" -> hotels
    [] kind = "visa" -> visas
    [] kind = "flight" -> flights

\* A collection without document id (findByIdAndDelete).
Without(coll, id) == [i \in DOMAIN coll \ {id} |-> coll[i]]

\* A collection with document id inserted or replaced.
With(coll, id, doc) ==
  [i \in DOMAIN coll \cup {id} |-> IF i = id THEN doc ELSE coll[i]]

\* How many files one request may carry: at most max (multer's maxCount), and
\* no more than the run's budget of uploads leaves.
FileCounts(max, budget) ==
  { n \in 0..max : nextAsset + n - 1 <= budget }

\* The URLs of the n files of one request, the first numbered from.
Uploaded(from, n) == [i \in 1..n |-> UrlOf(from + i - 1)]

\* The identifiers the store holds after these n files were uploaded.
Stored(from, n) == assets \cup { PublicIdOf(from + i - 1) : i \in 1..n }

Concat(ss) ==
  LET RECURSIVE cat(_)
      cat(k) == IF k = 0 THEN << >> ELSE cat(k - 1) \o ss[k]
  IN  cat(Len(ss))

\* An exchange: the request's route, kind and id, whether the id named a
\* persisted record when the store was asked, the response status (0 while
\* the request is in flight), and what
\* the handler did: the references the caller declared, the URLs of the files
\* uploaded with the request, the destroy calls issued, whether a destroy
\* call failed, whether a store call failed (validation included), whether
\* a JSON-encoded field of the form was malformed, the names of the fields
\* the form carried, the files of the activityImages field, and the
\* documents the response lists.
NoExchange ==
  [route |-> "none", kind |-> "none", id |-> 0, known |-> FALSE, status |-> 0,
   declared |-> << >>, uploaded |-> << >>, calls |-> << >>,
   destroyFailed |-> FALSE, storeFailed |-> FALSE, malformed |-> FALSE,
   fields |-> {}, batch |-> << >>, results |-> {}]

Exchange(route, kind, id, known, status) ==
  [NoExchange EXCEPT !.route = route, !.kind = kind, !.id = id,
                     !.known = known, !.status = status]

NoDelete == [pc |-> "idle", kind |-> "none", id |-> 0, refs |-> << >>,
             issued |-> << >>, done |-> {}]

\* A package with nothing in it.
NoPackage == [title |-> "", thumbnail |-> NoUrl, images |-> << >>,
              activities |-> << >>]

\* A package update request: where it is (idle, or read: findById answered),
\* the id, the record findById returned, the activities field of the form
\* and the files of the request.
NoUpdate == [pc |-> "idle", id |-> 0, existing |-> NoPackage,
             activities |-> Absent, thumb |-> << >>, images |-> << >>,
             actImages |-> << >>]

\* The lists of references a caller may declare for a record whose persisted
\* references are refs: any list, duplicates included, of those references
\* and of a URL that is none of the store's.
DeclaredLists(refs, max) ==
  UNION { [1..n -> {refs[i] : i \in 1..Len(refs)} \cup {BogusUrl}] :
            n \in 0..max }

\* Requests are served one at a time, except that the two package update
\* requests may overlap each other: no request is in flight.
\* No record: the password of an admin record that does not exist.
NoPassword == ""

\* The Admin collection: password is the password of the record named
\* ADMIN_USERNAME and old that of a record under another username (left by
\* a run with another ADMIN_USERNAME), NoPassword where there is no such
\* record; pc is boot until the seeding at startup has run.
\* Seeded: the store held no admin and the seeding created the default one.
Seeded == [pc |-> "up", password |-> "p0", old |-> NoPassword]

Idle == del.pc = "idle" /\ \A r \in Reqs : upd[r].pc = "idle"

Init ==
  /\ packages = << >>
  /\ hotels = << >>
  /\ visas = << >>
  /\ flights = << >>
  /\ assets = {}
  /\ nextAsset = 1
  /\ nextDoc = 1
  /\ del = NoDelete
  /\ upd = [r \in Reqs |-> NoUpdate]
  /\ admin = Seeded
  /\ last = NoExchange

\* ---------------------------------------------------------------- hotels
\* Mutant of HotelMerge: the uploaded files ahead of the declared references.
HotelMergeNewFirst(oldImages, newImages) == newImages \o oldImages

\* The images list the hotel update persists.
HotelMerge(oldImages, newImages) == oldImages \o newImages

\* POST /api/admin/hotels with n uploaded files.
HotelCreate(budget) ==
  \E n \in FileCounts(MaxCount, budget), title \in {NoField, "t1"},
     storeOk \in BOOLEAN :
    /\ Idle
    /\ nextDoc \in DocIds
    /\ LET files == Uploaded(nextAsset, n)
           ok == title # NoField /\ storeOk   \* title is required
       IN  /\ assets' = Stored(nextAsset, n)
           /\ nextAsset' = nextAsset + n
           /\ IF ok
                THEN /\ hotels' = With(hotels, nextDoc,
                                       [title |-> title, images |-> files])
                     /\ nextDoc' = nextDoc + 1
                ELSE UNCHANGED << hotels, nextDoc >>
           /\ last' = [Exchange("create", "hotel", IF ok THEN nextDoc ELSE 0,
                                FALSE, IF ok THEN 200 ELSE 500)
                         EXCEPT !.uploaded = IF ok THEN files ELSE << >>,
                                !.storeFailed = ~ok]
    /\ UNCHANGED << packages, visas, flights, del, upd, admin >>

\* PUT /api/admin/hotels/:id
HotelUpdate(budget, declared) ==
  \E id \in DocIds, n \in FileCounts(MaxCount, budget), storeOk \in BOOLEAN :
  \* a store failure answers the same whatever the form holds
  \E title \in IF storeOk THEN {NoField, "", "t2"} ELSE {NoField},
     existingImages \in
       IF storeOk
         THEN {Absent, EmptyText, BadJson}
                \cup { Json(d) : d \in DeclaredLists(
                         IF id \in DOMAIN hotels
                           THEN hotels[id].images ELSE << >>,
                         declared) }
         ELSE {Absent} :
    /\ Idle
    /\ LET files == Uploaded(nextAsset, n)
           known == id \in DOMAIN hotels
           throws == Truthy(existingImages) /\ ParseThrows(existingImages)
           oldImages == IF Truthy(existingImages) THEN existingImages.v
                        ELSE << >>
           images == HotelMerge(oldImages, files)
           status == IF throws \/ ~storeOk THEN 500
                     ELSE IF ~known THEN 404 ELSE 200
       IN  /\ assets' = Stored(nextAsset, n)
           /\ nextAsset' = nextAsset + n
           /\ hotels' =
                IF status = 200
                  THEN With(hotels, id,
                            [title |-> IF title \in {NoField, ""}
                                         THEN hotels[id].title ELSE title,
                             images |-> images])
                  ELSE hotels
           /\ last' = [Exchange("update", "hotel", id, known, status)
                         EXCEPT !.uploaded = IF status = 200 THEN files ELSE << >>,
                                !.declared = IF status = 200 THEN oldImages ELSE << >>,
                                !.fields =
                                  IF status # 200 THEN {}
                                  ELSE (IF title # NoField THEN {"title"} ELSE {})
                                         \cup (IF existingImages # Absent
                                                 THEN {"existingImages"}
                                                 ELSE {}),
                                !.storeFailed = ~storeOk,
                                !.malformed = throws]
    /\ UNCHANGED << packages, visas, flights, nextDoc, del, upd, admin >>

\* ---------------------------------------------------------------- delete
\* The references of a record the delete handlers hand to getPublicId:
\* a package's thumbnail (when truthy), images and every activity's images;
\* a hotel's images; a visa's image and a flight's logo (when truthy).
Refs(kind, doc) ==
  CASE kind = "package" ->
         (IF doc.thumbnail # NoUrl THEN << doc.thumbnail >> ELSE << >>)
           \o doc.images
           \o Concat([i \in 1..Len(doc.activities) |-> doc.activities[i].images])
    [] kind = "hotel" -> doc.images
    [] kind = "visa" -> IF doc.image # NoUrl THEN << doc.image >> ELSE << >>
    [] kind = "flight" -> IF doc.logo # NoUrl THEN << doc.logo >> ELSE << >>

IsId(x) == x # NoId

\* Mutant of DestroyCalls: one call per distinct identifier instead of one
\* per reference.
DestroyCallsDistinct(refs) ==
  LET ids == [i \in 1..Len(refs) |-> getPublicId(refs[i])]
      firsts == { i \in 1..Len(ids) :
                    IsId(ids[i]) /\ \A j \in 1..(i - 1) : ids[j] # ids[i] }
      RECURSIVE take(_)
      take(k) == IF k = 0 THEN << >>
                 ELSE IF k \in firsts THEN Append(take(k - 1), ids[k])
                 ELSE take(k - 1)
  IN  take(Len(ids))

\* The identifiers cloudinary.uploader.destroy is called with: getPublicId of
\* every reference, the nulls filtered out.
DestroyCalls(refs) ==
  SelectSeq([i \in 1..Len(refs) |-> getPublicId(refs[i])], IsId)

\* await Promise.all(...) resolves once every call issued has resolved.
AllSettled(issued, done) == done = 1..Len(issued)

\* DELETE /api/.../:id, up to the destroy calls: findById, collect the
\* identifiers, issue the calls.
DeleteStart ==
  \E kind \in Kinds, id \in DocIds, storeOk \in BOOLEAN :
    /\ Idle
    /\ LET known == id \in DOMAIN Coll(kind)
       IN  IF storeOk /\ known
             THEN LET refs == Refs(kind, Coll(kind)[id])
                      issued == DestroyCalls(refs)
                  IN  /\ del' = [pc |-> IF AllSettled(issued, {})
                                           THEN "removing" ELSE "destroying",
                                 kind |-> kind, id |-> id, refs |-> refs,
                                 issued |-> issued, done |-> {}]
                      /\ last' = Exchange("delete", kind, id, TRUE, 0)
             ELSE /\ last' = [Exchange("delete", kind, id, known,
                                       IF storeOk THEN 404 ELSE 500)
                                EXCEPT !.storeFailed = ~storeOk]
                  /\ UNCHANGED del
    /\ UNCHANGED << packages, hotels, visas, flights, assets, nextAsset,
                    nextDoc, upd, admin >>

\* One destroy call of the delete request returns.  A call that fails rejects
\* Promise.all: the handler answers 500 at once, and the calls still in
\* flight go on without it, each to remove its asset or to fail (gone: the
\* identifiers whose calls then succeed).
DestroyReturn ==
  \E i \in 1..Len(del.issued), ok \in BOOLEAN :
  \E gone \in SUBSET { del.issued[j] :
                        j \in (1..Len(del.issued)) \ (del.done \cup {i}) } :
    /\ del.pc = "destroying"
    /\ i \notin del.done
    /\ ok => gone = {}
    /\ IF ok
         THEN /\ assets' = assets \ {del.issued[i]}
              /\ del' = [del EXCEPT
                           !.done = @ \cup {i},
                           !.pc = IF AllSettled(del.issued, del.done \cup {i})
                                    THEN "removing" ELSE "destroying"]
              /\ UNCHANGED last
         ELSE /\ assets' = assets \ gone
              /\ last' = [Exchange("delete", del.kind, del.id, TRUE, 500)
                            EXCEPT !.calls = del.issued,
                                   !.destroyFailed = TRUE]
              /\ del' = NoDelete
    /\ UNCHANGED << packages, hotels, visas, flights, nextAsset, nextDoc,
                    upd, admin >>

\* The rest of the delete handler: findByIdAndDelete, then the answer.
DeleteRemove ==
  \E storeOk \in BOOLEAN :
    /\ del.pc = "removing"
    /\ packages' = IF storeOk /\ del.kind = "package"
                     THEN Without(packages, del.id) ELSE packages
    /\ hotels' = IF storeOk /\ del.kind = "hotel"
                   THEN Without(hotels, del.id) ELSE hotels
    /\ visas' = IF storeOk /\ del.kind = "visa"
                  THEN Without(visas, del.id) ELSE visas
    /\ flights' = IF storeOk /\ del.kind = "flight"
                    THEN Without(flights, del.id) ELSE flights
    /\ last' = [Exchange("delete", del.kind, del.id, TRUE,
                         IF storeOk THEN 200 ELSE 500)
                  EXCEPT !.calls = del.issued, !.storeFailed = ~storeOk]
    /\ del' = NoDelete
    /\ UNCHANGED << assets, nextAsset, nextDoc, upd, admin >>

\* ----------------------------------------------------------------- visas
\* The references a caller may send in a single-reference field of a record
\* whose persisted reference is ref: none, that reference, or a URL that is
\* none of the store's.
DeclaredRefs(ref) == {NoUrl, ref, BogusUrl}

\* POST /api/admin/visas: the image is the uploaded file's URL, else the
\* existingImage field, else "".
VisaCreate(budget) ==
  \E n \in FileCounts(1, budget), name \in {NoField, "n1"},
     existingImage \in DeclaredRefs(NoUrl), storeOk \in BOOLEAN :
    /\ Idle
    /\ nextDoc \in DocIds
    /\ LET files == Uploaded(nextAsset, n)
           image == IF n > 0 THEN files[1] ELSE existingImage
           ok == name # NoField /\ storeOk   \* name is required
       IN  /\ assets' = Stored(nextAsset, n)
           /\ nextAsset' = nextAsset + n
           /\ IF ok
                THEN /\ visas' = With(visas, nextDoc,
                                      [name |-> name, image |-> image])
                     /\ nextDoc' = nextDoc + 1
                ELSE UNCHANGED << visas, nextDoc >>
           /\ last' = [Exchange("create", "visa", IF ok THEN nextDoc ELSE 0,
                                FALSE, IF ok THEN 200 ELSE 500)
                         EXCEPT !.uploaded = IF ok THEN files ELSE << >>,
                                !.storeFailed = ~ok]
    /\ UNCHANGED << packages, hotels, flights, del, upd, admin >>

\* PUT /api/admin/visas/:id: findByIdAndUpdate's result is not looked at.
VisaUpdate(budget) ==
  \E id \in DocIds, n \in FileCounts(1, budget), storeOk \in BOOLEAN :
  \E existingImage \in IF storeOk
                          THEN DeclaredRefs(IF id \in DOMAIN visas
                                              THEN visas[id].image ELSE NoUrl)
                          ELSE {NoUrl} :
    /\ Idle
    /\ LET files == Uploaded(nextAsset, n)
           known == id \in DOMAIN visas
           status == IF storeOk THEN 200 ELSE 500
       IN  /\ assets' = Stored(nextAsset, n)
           /\ nextAsset' = nextAsset + n
           /\ visas' =
                IF storeOk /\ known
                  THEN With(visas, id,
                            [visas[id] EXCEPT
                               !.image = IF n > 0 THEN files[1]
                                         ELSE IF existingImage # NoUrl
                                           THEN existingImage
                                         ELSE @])
                  ELSE visas
           /\ last' = [Exchange("update", "visa", id, known, status)
                         EXCEPT !.uploaded = IF storeOk THEN files ELSE << >>,
                                !.declared = IF storeOk /\ existingImage # NoUrl
                                               THEN << existingImage >>
                                               ELSE << >>,
                                !.storeFailed = ~storeOk]
    /\ UNCHANGED << packages, hotels, flights, nextDoc, del, upd, admin >>

\* --------------------------------------------------------------- flights
\* POST /api/flights: departure stands for the three fields the handler
\* hands to JSON.parse (departure, arrival, services).
FlightCreate(budget) ==
  \E n \in FileCounts(1, budget), departure \in {Absent, BadJson, Json(<< >>)} :
  \* JSON.parse throws before the store is asked
  \E storeOk \in IF ParseThrows(departure) THEN {TRUE} ELSE BOOLEAN :
    /\ Idle
    /\ nextDoc \in DocIds
    /\ LET files == Uploaded(nextAsset, n)
           throws == ParseThrows(departure)
           ok == ~throws /\ storeOk
       IN  /\ assets' = Stored(nextAsset, n)
           /\ nextAsset' = nextAsset + n
           /\ IF ok
                THEN /\ flights' = With(flights, nextDoc,
                                        [logo |-> IF n > 0 THEN files[1]
                                                  ELSE NoUrl])
                     /\ nextDoc' = nextDoc + 1
                ELSE UNCHANGED << flights, nextDoc >>
           /\ last' = [Exchange("create", "flight", IF ok THEN nextDoc ELSE 0,
                                FALSE, IF ok THEN 201 ELSE 500)
                         EXCEPT !.uploaded = IF ok THEN files ELSE << >>,
                                !.storeFailed = ~storeOk,
                                !.malformed = (departure = BadJson)]
    /\ UNCHANGED << packages, hotels, visas, del, upd, admin >>

\* PUT /api/flight/:id: the logo is the uploaded file's URL, else the
\* existingLogo field, else null.
FlightUpdate(budget) ==
  \E id \in DocIds, n \in FileCounts(1, budget),
     departure \in {Absent, BadJson, Json(<< >>)} :
  \* JSON.parse throws before the store is asked
  \E storeOk \in IF ParseThrows(departure) THEN {TRUE} ELSE BOOLEAN :
  \E existingLogo \in IF storeOk /\ ~ParseThrows(departure)
                         THEN DeclaredRefs(IF id \in DOMAIN flights
                                             THEN flights[id].logo ELSE NoUrl)
                         ELSE {NoUrl} :
    /\ Idle
    /\ LET files == Uploaded(nextAsset, n)
           known == id \in DOMAIN flights
           throws == ParseThrows(departure)
           status == IF throws \/ ~storeOk THEN 500
                     ELSE IF ~known THEN 404 ELSE 200
       IN  /\ assets' = Stored(nextAsset, n)
           /\ nextAsset' = nextAsset + n
           /\ flights' =
                IF status = 200
                  THEN With(flights, id,
                            [logo |-> IF n > 0 THEN files[1] ELSE existingLogo])
                  ELSE flights
           /\ last' = [Exchange("update", "flight", id, known, status)
                         EXCEPT !.uploaded = IF status = 200 THEN files ELSE << >>,
                                !.declared = IF status = 200 /\ existingLogo # NoUrl
                                               THEN << existingLogo >>
                                               ELSE << >>,
                                !.storeFailed = ~storeOk,
                                !.malformed = (departure = BadJson)]
    /\ UNCHANGED << packages, hotels, visas, nextDoc, del, upd, admin >>

\* -------------------------------------------------------------- packages
\* An activity of a create form: it declares an imageCount (given), or none.
Undeclared == [given |-> FALSE, imageCount |-> 0]

ActivityInput ==
  {Undeclared} \cup { [given |-> TRUE, imageCount |-> c] : c \in 0..MaxDeclared }

\* The activities lists a create form may carry.
ActivityInputs ==
  UNION { [1..k -> ActivityInput] : k \in 0..MaxActs }

\* The activities lists none of whose activities declares an imageCount.
UndeclaredInputs ==
  { [i \in 1..k |-> Undeclared] : k \in 0..MaxActs }

\* act.imageCount || 1: an imageCount of 0 is falsy, as is none.
CountOf(act) ==
  IF act.given /\ act.imageCount # 0 THEN act.imageCount ELSE 1

\* The images of activity i on create: a slice of the activityImages batch
\* that starts where the slice before it ended; count is the activity's
\* imageCount, or 1 when it declares none.
RECURSIVE imgIdx(_, _)
imgIdx(acts, i) ==
  IF i = 1 THEN 0
  ELSE imgIdx(acts, i - 1) + CountOf(acts[i - 1])

\* Array.prototype.slice(from, to) (0-based, to excluded, clipped).
Slice(seq, from, to) ==
  LET hi == IF to < Len(seq) THEN to ELSE Len(seq)
  IN  IF from >= hi THEN << >> ELSE SubSeq(seq, from + 1, hi)

CreateActivities(acts, batch) ==
  [i \in 1..Len(acts) |->
     [images |->
        IF Len(batch) = 0 THEN << >>
        ELSE LET count == CountOf(acts[i])
             IN  Slice(batch, imgIdx(acts, i), imgIdx(acts, i) + count)]]

\* POST /api/admin/packages with nT thumbnail, nI images and nA
\* activityImages files; thumbnail is the form's text field of that name,
\* kept when no thumbnail file comes.
PkgCreate(budget) ==
  \E nT \in FileCounts(1, budget), title \in {NoField, "t1"},
     storeOk \in BOOLEAN :
  \E nI \in FileCounts(MaxCount, budget - nT) :
  \E nA \in FileCounts(MaxActCount, budget - nT - nI) :
  \* inputs that are not read are left out: the thumbnail field when a
  \* thumbnail file comes, the imageCounts when no activityImages file comes
  \E thumbnail \in IF nT > 0 THEN {NoUrl} ELSE {NoUrl, BogusUrl},
     activities \in {Absent, BadJson}
                      \cup { Json(a) : a \in IF nA > 0 THEN ActivityInputs
                                              ELSE UndeclaredInputs } :
    /\ Idle
    /\ nextDoc \in DocIds
    /\ LET n == nT + nI + nA
           thumbFiles == Uploaded(nextAsset, nT)
           imageFiles == Uploaded(nextAsset + nT, nI)
           actFiles == Uploaded(nextAsset + nT + nI, nA)
           \* a field that does not parse becomes []
           acts == IF activities.k = "json" THEN activities.v ELSE << >>
           ok == title # NoField /\ storeOk   \* title is required
       IN  /\ assets' = Stored(nextAsset, n)
           /\ nextAsset' = nextAsset + n
           /\ IF ok
                THEN /\ packages' =
                          With(packages, nextDoc,
                               [title |-> title,
                                thumbnail |-> IF nT > 0 THEN thumbFiles[1]
                                              ELSE thumbnail,
                                images |-> imageFiles,
                                activities |-> CreateActivities(acts, actFiles)])
                     /\ nextDoc' = nextDoc + 1
                ELSE UNCHANGED << packages, nextDoc >>
           /\ last' = [Exchange("create", "package", IF ok THEN nextDoc ELSE 0,
                                FALSE, IF ok THEN 200 ELSE 500)
                         EXCEPT !.uploaded = IF ok THEN thumbFiles \o imageFiles
                                                          \o actFiles
                                             ELSE << >>,
                                !.declared = IF ok /\ nA > 0 THEN acts
                                             ELSE << >>,
                                !.batch = IF ok THEN actFiles ELSE << >>,
                                !.storeFailed = ~ok,
                                !.malformed = (activities = BadJson)]
    /\ UNCHANGED << hotels, visas, flights, del, upd, admin >>

\* The activities lists an update form may carry: each activity lists images
\* (only the length of the list is read).
ActivityDeclared ==
  UNION { [1..k -> [images : { [j \in 1..m |-> BogusUrl] : m \in 0..MaxDeclared }]]
            : k \in 0..MaxActs }

\* Mutant of PkgBase: the merge starts from the record as the store holds it
\* at the write.
PkgBaseCurrent(read, current) == current

\* The record the update merges into: the one findById returned.
PkgBase(read, current) == read

\* How many of the activityImages files the activities before activity i
\* took (splice removes them from the front of the batch).
RECURSIVE taken(_, _, _)
taken(declared, batch, i) ==
  IF i = 1 THEN 0
  ELSE LET before == taken(declared, batch, i - 1)
           want == IF i - 1 <= Len(declared)
                     THEN Len(declared[i - 1].images) ELSE 0
           left == Len(batch) - before
       IN  before + (IF want < left THEN want ELSE left)

\* Mutant of PkgMerge: the files of the request replace the images the
\* record held, and the activities are those the form lists.
PkgMergeReplacing(existing, req) ==
  LET declared == IF req.activities.k = "json" THEN req.activities.v ELSE << >>
  IN  [title |-> existing.title,
       thumbnail |-> IF Len(req.thumb) > 0 THEN req.thumb[1]
                     ELSE existing.thumbnail,
       images |-> IF Len(req.images) > 0 THEN req.images
                  ELSE existing.images,
       activities |->
         [i \in 1..Len(declared) |->
            [images |-> IF i <= Len(existing.activities)
                          THEN existing.activities[i].images ELSE << >>]]]

\* The data object the update handler builds from the record it read and the
\* request: thumbnail and images replaced or kept, every existing activity
\* given the next newImgs.length files of the batch.
PkgMerge(existing, req) ==
  LET declared == IF req.activities.k = "json" THEN req.activities.v ELSE << >>
  IN  [title |-> existing.title,
       thumbnail |-> IF Len(req.thumb) > 0 THEN req.thumb[1]
                     ELSE existing.thumbnail,
       images |-> IF Len(req.images) > 0 THEN existing.images \o req.images
                  ELSE existing.images,
       activities |->
         [i \in 1..Len(existing.activities) |->
            LET want == IF i <= Len(declared)
                          THEN Len(declared[i].images) ELSE 0
                from == taken(declared, req.actImages, i)
            IN  [images |-> existing.activities[i].images
                              \o Slice(req.actImages, from, from + want)]]]

\* PUT /api/admin/packages/:id, up to findById's answer.
PkgUpdateRead(r, budget) ==
  \E id \in DocIds, nT \in FileCounts(1, budget), storeOk \in BOOLEAN :
  \E nI \in FileCounts(MaxCount, budget - nT) :
  \E nA \in FileCounts(MaxActCount, budget - nT - nI) :
  \* the activities field is read only to share out the activityImages files
  \E activities \in IF nA > 0 /\ storeOk /\ id \in DOMAIN packages
                       THEN {Absent, BadJson}
                              \cup { Json(a) : a \in ActivityDeclared }
                       ELSE {Absent} :
    /\ del.pc = "idle"
    /\ upd[r].pc = "idle"
    \* request 2 is the one that arrives while request 1 is in flight
    /\ r = 2 => upd[1].pc # "idle"
    /\ LET n == nT + nI + nA
           known == id \in DOMAIN packages
       IN  /\ assets' = Stored(nextAsset, n)
           /\ nextAsset' = nextAsset + n
           /\ IF storeOk /\ known
                THEN /\ upd' = [upd EXCEPT ![r] =
                                  [pc |-> "read", id |-> id,
                                   existing |-> packages[id],
                                   activities |-> activities,
                                   thumb |-> Uploaded(nextAsset, nT),
                                   images |-> Uploaded(nextAsset + nT, nI),
                                   actImages |-> Uploaded(nextAsset + nT + nI, nA)]]
                     /\ last' = Exchange("update", "package", id, TRUE, 0)
                ELSE /\ last' = [Exchange("update", "package", id, known,
                                          IF storeOk THEN 404 ELSE 500)
                                   EXCEPT !.storeFailed = ~storeOk]
                     /\ UNCHANGED upd
    /\ UNCHANGED << packages, hotels, visas, flights, nextDoc, del, admin >>

\* The rest of the package update: findByIdAndUpdate(id, data), then the
\* answer (success also when the record is gone: the result is not looked at).
PkgUpdateWrite(r) ==
  \E storeOk \in BOOLEAN :
    /\ upd[r].pc = "read"
    /\ LET id == upd[r].id
           known == id \in DOMAIN packages
       IN  /\ packages' =
                IF storeOk /\ known
                  THEN With(packages, id,
                            PkgMerge(PkgBase(upd[r].existing, packages[id]),
                                     upd[r]))
                  ELSE packages
           /\ last' = [Exchange("update", "package", id, TRUE,
                                IF storeOk THEN 200 ELSE 500)
                         EXCEPT !.uploaded = IF storeOk
                                               THEN upd[r].thumb \o upd[r].images
                                                      \o upd[r].actImages
                                               ELSE << >>,
                                !.storeFailed = ~storeOk]
    /\ upd' = [upd EXCEPT ![r] = NoUpdate]
    /\ UNCHANGED << hotels, visas, flights, assets, nextAsset, nextDoc, del,
                    admin >>

\* ---------------------------------------------------------------- search
\* A query parameter that carries text v.
Param(v) == [k |-> "text", v |-> v]

\* The characters of a title or of a search text.
Spell(text) ==
  CASE text = "t1" -> << "G", "o", "a" >>
    [] text = "t2" -> << "z" >>
    [] text = "go" -> << "g", "o" >>
    [] text = "zz" -> << "z", "z" >>
    [] text = "." -> << "." >>
    [] text = "(" -> << "(" >>

\* The lower-case form of a character ($options: "i").
Lower(ch) == IF ch = "G" THEN "g" ELSE ch

\* The text is no regular expression: the store rejects the query.
BadPattern(text) == \E i \in 1..Len(Spell(text)) : Spell(text)[i] = "("

\* { title: { $regex: text, $options: "i" } }: the text, read as a regular
\* expression (a dot stands for any character), matches somewhere in the
\* title, letter case ignored.
Matches(title, text) ==
  LET t == Spell(title)
      p == Spell(text)
  IN  \E from \in 0..(Len(t) - Len(p)) :
        \A j \in 1..Len(p) :
          p[j] = "." \/ Lower(p[j]) = Lower(t[from + j])

\* A package with a price and a day count, as the search reads it.
SearchDoc(title, price, days) ==
  [title |-> title, thumbnail |-> NoUrl, images |-> << >>,
   activities |-> << >>, price |-> price, days |-> days]

SearchDocs ==
  { SearchDoc(title, price, days) :
      title \in {"t1", "t2"}, price \in {1, 2}, days \in {"3", "5"} }

\* Mutant of Fallback: what the full filter found, empty or not.
NoFallback(found, byTitle) == found

\* if (results.length === 0) results = await Destination.find({ title })
Fallback(found, byTitle) == IF found = {} THEN byTitle ELSE found

\* GET /api/packagesearch
PackageSearch ==
  \E title \in {Absent, EmptyText} \cup { Param(t) : t \in {"go", "zz", ".", "("} },
     storeOk \in BOOLEAN :
  \* without a title, and when the query fails, the other parameters are
  \* not read
  \E minPrice \in IF Truthy(title) /\ storeOk /\ ~BadPattern(title.v)
                    THEN {Absent, Param(1), Param(2)} ELSE {Absent},
     maxPrice \in IF Truthy(title) /\ storeOk /\ ~BadPattern(title.v)
                    THEN {Absent, Param(1), Param(2)} ELSE {Absent},
     days \in IF Truthy(title) /\ storeOk /\ ~BadPattern(title.v)
                THEN {Absent, Param("3"), Param("5")} ELSE {Absent} :
    /\ Idle
    /\ LET failed == Truthy(title) /\ (~storeOk \/ BadPattern(title.v))
           byTitle == IF Truthy(title) /\ ~failed
                        THEN { id \in DOMAIN packages :
                                 Matches(packages[id].title, title.v) }
                        ELSE {}
           found == { id \in byTitle :
                        /\ (Truthy(minPrice) /\ Truthy(maxPrice))
                             => /\ "price" \in DOMAIN packages[id]
                                /\ packages[id].price >= minPrice.v
                                /\ packages[id].price <= maxPrice.v
                        /\ Truthy(days)
                             => /\ "days" \in DOMAIN packages[id]
                                /\ packages[id].days = days.v }
       IN  last' = [Exchange("search", "package", 0, TRUE,
                             IF failed THEN 500 ELSE 200)
                      EXCEPT !.declared = << title, minPrice, maxPrice, days >>,
                             !.results = Fallback(found, byTitle),
                             !.storeFailed = Truthy(title) /\ ~storeOk]
    /\ UNCHANGED << packages, hotels, visas, flights, assets, nextAsset,
                    nextDoc, del, upd, admin >>

\* The search over a store that holds up to MaxCatalogue packages.
SearchInit ==
  /\ \E n \in 0..MaxCatalogue :
       /\ packages \in [1..n -> SearchDocs]
       /\ nextDoc = n + 1
  /\ hotels = << >>
  /\ visas = << >>
  /\ flights = << >>
  /\ assets = {}
  /\ nextAsset = 1
  /\ del = NoDelete
  /\ upd = [r \in Reqs |-> NoUpdate]
  /\ admin = Seeded
  /\ last = NoExchange

SearchNext == PackageSearch

SpecSearch == SearchInit /\ [][SearchNext]_vars

PkgNext ==
  \/ PkgCreate(MaxAssets)
  \/ \E r \in Reqs : PkgUpdateRead(r, MaxAssets)
  \/ \E r \in Reqs : PkgUpdateWrite(r)
  \/ DeleteStart
  \/ DestroyReturn
  \/ DeleteRemove

SpecPkg == Init /\ [][PkgNext]_vars

\* ----------------------------------------------------------------- admin
\* The Authorization header of a request: none, a token jwt.verify rejects
\* (malformed, wrongly signed or expired), or a token it accepts.
Tokens == {"none", "invalid", "expired", "valid"}

Passwords == {"p0", "p1"}

\* The admin records a token or a login may name: 1 is the record named
\* ADMIN_USERNAME, 2 a record under another username.
AdminIds == {1, 2}

\* Admin.findById / Admin.findOne: the password of the record, NoPassword
\* when there is none.
AdminPassword(who) == IF who = 1 THEN admin.password ELSE admin.old

\* The startup seeding: Admin.findOne({username: ADMIN_USERNAME}), then
\* Admin.create when it found none; an error is logged and dropped.
Seed ==
  \E storeOk \in BOOLEAN :
    /\ admin.pc = "boot"
    /\ admin' = [admin EXCEPT
                   !.pc = "up",
                   !.password = IF storeOk /\ admin.password = NoPassword
                                  THEN "p0" ELSE admin.password]
    /\ UNCHANGED << packages, hotels, visas, flights, assets, nextAsset,
                    nextDoc, del, upd, last >>

\* POST /api/admin/login
Login ==
  \E who \in AdminIds, storeOk \in BOOLEAN :
  \E password \in IF storeOk THEN Passwords ELSE {"p0"} :
    /\ Idle
    /\ LET status == IF ~storeOk THEN 500
                     ELSE IF AdminPassword(who) = NoPassword
                             \/ AdminPassword(who) # password THEN 400
                     ELSE 200
       IN  last' = [Exchange("login", "none", who, TRUE, status)
                      EXCEPT !.declared = << password >>,
                             !.storeFailed = ~storeOk]
    /\ UNCHANGED << packages, hotels, visas, flights, assets, nextAsset,
                    nextDoc, del, upd, admin >>

\* POST /api/admin/change-password; who is the record a valid token names.
ChangePassword ==
  \E token \in Tokens, storeOk \in BOOLEAN :
  \E who \in IF token = "valid" /\ storeOk THEN AdminIds ELSE {1} :
  \E oldPassword \in IF token = "valid" /\ storeOk THEN Passwords ELSE {"p0"},
     newPassword \in IF token = "valid" /\ storeOk THEN Passwords ELSE {"p0"} :
    /\ Idle
    /\ LET status ==
             IF token = "none" THEN 401
             ELSE IF token # "valid" THEN 500      \* jwt.verify throws
             ELSE IF ~storeOk THEN 500
             ELSE IF AdminPassword(who) = NoPassword THEN 404
             ELSE IF AdminPassword(who) # oldPassword THEN 400
             ELSE 200
       IN  /\ admin' = IF status # 200 THEN admin
                       ELSE IF who = 1
                         THEN [admin EXCEPT !.password = newPassword]
                         ELSE [admin EXCEPT !.old = newPassword]
           /\ last' = [Exchange("change-password", token, who, TRUE, status)
                         EXCEPT !.declared = << oldPassword, newPassword >>,
                                !.storeFailed = (token = "valid" /\ ~storeOk)]
    /\ UNCHANGED << packages, hotels, visas, flights, assets, nextAsset,
                    nextDoc, del, upd >>

HotelNext ==
  \/ HotelCreate(MaxAssets)
  \/ HotelUpdate(MaxAssets, MaxDeclared)
  \/ DeleteStart
  \/ DestroyReturn
  \/ DeleteRemove

SpecHotel == Init /\ [][HotelNext]_vars

VisaFlightNext ==
  \/ VisaCreate(MaxAssets)
  \/ VisaUpdate(MaxAssets)
  \/ FlightCreate(MaxAssets)
  \/ FlightUpdate(MaxAssets)
  \/ DeleteStart
  \/ DestroyReturn
  \/ DeleteRemove

SpecVisaFlight == Init /\ [][VisaFlightNext]_vars

Next ==
  \/ PkgCreate(MaxAssets)
  \/ \E r \in Reqs : PkgUpdateRead(r, MaxAssets)
  \/ \E r \in Reqs : PkgUpdateWrite(r)
  \/ HotelCreate(MaxAssets)
  \/ HotelUpdate(MaxAssets, MaxDeclared)
  \/ VisaCreate(MaxAssets)
  \/ VisaUpdate(MaxAssets)
  \/ FlightCreate(MaxAssets)
  \/ FlightUpdate(MaxAssets)
  \/ DeleteStart
  \/ DestroyReturn
  \/ DeleteRemove
  \/ Login
  \/ ChangePassword

Spec == Init /\ [][Next]_vars

\* The states the process may start in: the store holds no admin, the one
\* named ADMIN_USERNAME, one under another username, or both, and the
\* seeding has not run yet.
BootInit ==
  /\ packages = << >>
  /\ hotels = << >>
  /\ visas = << >>
  /\ flights = << >>
  /\ assets = {}
  /\ nextAsset = 1
  /\ nextDoc = 1
  /\ del = NoDelete
  /\ upd = [r \in Reqs |-> NoUpdate]
  /\ admin \in [pc : {"boot"}, password : {NoPassword, "p0"},
                 old : {NoPassword, "p0"}]
  /\ last = NoExchange

\* The credential routes and the seeding, among visa and flight requests.
AdminNext ==
  \/ Seed
  \/ Login
  \/ ChangePassword
  \/ VisaCreate(MaxAssets)
  \/ VisaUpdate(MaxAssets)
  \/ FlightCreate(MaxAssets)
  \/ FlightUpdate(MaxAssets)
  \/ DeleteStart
  \/ DestroyReturn
  \/ DeleteRemove

SpecAdmin == BootInit /\ [][AdminNext]_vars

\* Hotel create and update with a
\* budget of uploads that lets one list pass multer's maxCount.
CapNext ==
  \/ HotelCreate(CapAssets)
  \/ HotelUpdate(CapAssets, CapDeclared)

SpecCap == Init /\ [][CapNext]_vars

\* ---------------------------------------------------------------- claims
Elems(seq) == { seq[i] : i \in 1..Len(seq) }

Answered(route) == last.route = route /\ last.status # 0

\* C1: entity delete is fail-open: when a delete request found the record
\* and one of its destroy calls failed, the record is still removed and the
\* request reports success.
C1_DeleteFailOpen ==
  (Answered("delete") /\ last.destroyFailed)
    => /\ last.status = 200
       /\ last.id \notin DOMAIN Coll(last.kind)

\* The non-empty image references a persisted record holds.
HeldRefs(kind, doc) ==
  CASE kind = "package" ->
         {doc.thumbnail} \cup Elems(doc.images)
           \cup UNION { Elems(doc.activities[i].images) :
                          i \in 1..Len(doc.activities) }
    [] kind = "hotel" -> Elems(doc.images)
    [] kind = "visa" -> {doc.image}
    [] kind = "flight" -> {doc.logo}

\* C2: every non-empty image reference held by a persisted package, hotel,
\* visa or flight names an asset that exists in the remote store.
C2_RefsNameAssets ==
  \A kind \in Kinds : \A id \in DOMAIN Coll(kind) :
    \A ref \in HeldRefs(kind, Coll(kind)[id]) \ {NoUrl} :
      /\ getPublicId(ref) # NoId
      /\ getPublicId(ref) \in assets

\* C3: an update of a hotel, visa or flight issues one destroy call for every
\* reference the record held before the update that the caller did not
\* declare as retained (in existingImages, existingImage, existingLogo).
C3_UpdateDestroysOrphans ==
  [][\A kind \in {"hotel", "visa", "flight"} :
       (/\ last' # last
        /\ last'.route = "update" /\ last'.kind = kind /\ last'.status = 200
        /\ last'.id \in DOMAIN Coll(kind))
         => \A ref \in (HeldRefs(kind, Coll(kind)[last'.id]) \ {NoUrl})
                         \ Elems(last'.declared) :
              \E i \in 1..Len(last'.calls) : last'.calls[i] = getPublicId(ref)
    ]_vars

\* C4: an update request whose id matches no persisted record answers 404
\* (unless the store or the parse of the form fails first) and never reports
\* success.
C4_UnknownUpdateNotFound ==
  (Answered("update") /\ ~last.known /\ last.status # 500)
    => last.status = 404

\* C5: a successful hotel update persists exactly the references declared in
\* existingImages, in their order and with their duplicates, followed by the
\* URLs of the uploaded files in upload order.
C5_HotelUpdateConcat ==
  (Answered("update") /\ last.kind = "hotel" /\ last.status = 200)
    => /\ last.id \in DOMAIN hotels
       /\ hotels[last.id].images = last.declared \o last.uploaded

\* A hotel update answered with success that declared a reference twice and
\* carried a file.
C5_Witness ==
  /\ Answered("update") /\ last.kind = "hotel" /\ last.status = 200
  /\ Len(last.declared) >= 2
  /\ last.declared[1] = last.declared[2]
  /\ Len(last.uploaded) >= 1

\* C6: the images list of every package and of every hotel has at most
\* MaxCount (10) elements, and a package holds at most one thumbnail.
C6_CapacityBound ==
  /\ \A id \in DOMAIN packages :
       /\ Len(packages[id].images) <= MaxCount
       /\ Cardinality({packages[id].thumbnail} \ {NoUrl}) <= 1
  /\ \A id \in DOMAIN hotels : Len(hotels[id].images) <= MaxCount

\* Request r's findByIdAndUpdate succeeds in this step.
Writes(r) ==
  /\ upd[r].pc = "read"
  /\ upd'[r].pc = "idle"
  /\ last'.status = 200
  /\ upd[r].id \in DOMAIN packages

\* C7: when package updates overlap, the record persisted by a write is the
\* one its request computed from the record it read (last write wins): the
\* images are the images it read followed by its own files, and no image
\* another request wrote since that read is in the list; every activity
\* holds the images it held at the read and files of this request only.
C7_LastWriteWins ==
  [][\A r \in Reqs :
       Writes(r) =>
         LET id == upd[r].id
             read == upd[r].existing
         IN  /\ packages'[id].images = read.images \o upd[r].images
             /\ packages'[id].thumbnail =
                  (IF Len(upd[r].thumb) > 0 THEN upd[r].thumb[1]
                   ELSE read.thumbnail)
             /\ \A u \in Elems(packages[id].images) \ Elems(read.images) :
                  u \notin Elems(packages'[id].images)
             /\ Len(packages'[id].activities) = Len(read.activities)
             /\ \A i \in 1..Len(read.activities) :
                  Elems(packages'[id].activities[i].images)
                    \subseteq Elems(read.activities[i].images)
                                \cup Elems(upd[r].actImages)
    ]_vars

\* Two package updates overlap: both have read the record, one has written
\* its file into the images list, and the other, which read before that
\* write and carries a file of its own, is about to write.
C7_Witness ==
  \E r \in Reqs :
    /\ upd[r].pc = "read"
    /\ upd[r].id \in DOMAIN packages
    /\ Len(upd[r].images) > 0
    /\ \E u \in Elems(packages[upd[r].id].images) :
         u \notin Elems(upd[r].existing.images)

\* The places of a record that hold an image reference.
RefSlots(kind, doc) ==
  CASE kind = "package" ->
         { <<"thumbnail", 0, 0>> }
           \cup { <<"images", i, 0>> : i \in 1..Len(doc.images) }
           \cup UNION { { <<"activities", a, j>> :
                            j \in 1..Len(doc.activities[a].images) } :
                        a \in 1..Len(doc.activities) }
    [] kind = "hotel" -> { <<"images", i, 0>> : i \in 1..Len(doc.images) }
    [] kind = "visa" -> { <<"image", 0, 0>> }
    [] kind = "flight" -> { <<"logo", 0, 0>> }

RefAt(doc, slot) ==
  CASE slot[1] = "thumbnail" -> doc.thumbnail
    [] slot[1] = "images" -> doc.images[slot[2]]
    [] slot[1] = "activities" -> doc.activities[slot[2]].images[slot[3]]
    [] slot[1] = "image" -> doc.image
    [] slot[1] = "logo" -> doc.logo

\* While a delete request is in flight: the calls it issued are one for each
\* reference of the record whose identifier can be extracted, and none else.
OneCallPerRef ==
  del.pc # "idle" =>
    /\ del.id \in DOMAIN Coll(del.kind)
    /\ \A i \in 1..Len(del.issued) : del.issued[i] # NoId
    /\ LET doc == Coll(del.kind)[del.id]
           ids == { getPublicId(RefAt(doc, sl)) : sl \in RefSlots(del.kind, doc) }
                    \cup Elems(del.issued)
       IN  \A x \in ids \ {NoId} :
             Cardinality({ i \in 1..Len(del.issued) : del.issued[i] = x })
               = Cardinality({ sl \in RefSlots(del.kind, doc) :
                                 getPublicId(RefAt(doc, sl)) = x })

\* A delete request that issued no call and met no store failure removed the
\* record and reported success; success is reported only with the record
\* removed.
NoCallStillRemoves ==
  Answered("delete") /\ last.known =>
    /\ (last.calls = << >> /\ ~last.storeFailed) => last.status = 200
    /\ last.status = 200 => last.id \notin DOMAIN Coll(last.kind)

\* C8: a delete request issues exactly one destroy call for each image
\* reference of the record whose identifier can be extracted and none for
\* the others, removes the record only after every issued call has returned,
\* and with no extractable reference still removes the record and reports
\* success.
C8_DeleteProtocol ==
  [][/\ OneCallPerRef'
     /\ NoCallStillRemoves'
     /\ \A kind \in Kinds :
          (/\ del.pc # "idle" /\ del.kind = kind
           /\ del.id \in DOMAIN Coll(kind)
           /\ del.id \notin DOMAIN Coll(kind)')
            => del.done = 1..Len(del.issued)
    ]_vars

\* A delete request whose record holds a reference with an identifier and one
\* without: the call issued for the first has returned, none was issued for
\* the second, and the record is about to be removed.
C8_Witness ==
  /\ del.pc = "removing"
  /\ Len(del.issued) >= 1
  /\ Len(del.refs) > Len(del.issued)
  /\ del.done = 1..Len(del.issued)

\* C9: a create request, or an update request for a persisted record, with a
\* malformed JSON-encoded field (and no store failure) still completes
\* successfully.
C9_MalformedTolerated ==
  (/\ last.status # 0
   /\ last.route = "create" \/ (last.route = "update" /\ last.known)
   /\ last.malformed /\ ~last.storeFailed)
    => last.status \in {200, 201}

\* C10: a change-password request whose token is missing, invalid or expired
\* answers 401 and leaves the stored password unchanged; the password is
\* overwritten only when the token is valid and the old password supplied
\* equals the stored one.
C10_BadTokenUnauthorized ==
  [][/\ (last'.route = "change-password" /\ last'.kind # "valid")
          => (last'.status = 401 /\ admin' = admin)
     /\ admin'.password # admin.password
          => /\ last'.route = "change-password"
             /\ last'.kind = "valid"
             /\ last'.declared[1] = admin.password
    ]_vars

\* The admin records the store holds.
AdminRecords(a) ==
  { who \in {"password", "old"} : a[who] # NoPassword }

\* C11: once the startup seeding has run, the store holds exactly one admin
\* record, and the password of a record changes only in a change-password
\* request that answers success; login and every other route leave it as it
\* is.
C11_OneAdminRecord ==
  [][/\ admin'.pc = "up" => Cardinality(AdminRecords(admin')) = 1
     /\ \A who \in AdminRecords(admin) :
          admin'[who] # admin[who]
            => /\ last' # last
               /\ last'.route = "change-password"
               /\ last'.status = 200
    ]_vars

\* The count an activity of a create form declares: its imageCount, or 1
\* when it declares none.
Declared(act) == IF act.given THEN act.imageCount ELSE 1

\* Where the slice of activity i ends in a batch of n files, when every
\* activity takes its count of files from the front of what is left.
RECURSIVE SliceEnd(_, _, _)
SliceEnd(acts, n, i) ==
  IF i = 0 THEN 0
  ELSE LET to == SliceEnd(acts, n, i - 1) + Declared(acts[i])
       IN  IF to < n THEN to ELSE n

\* C12: a package create with a non-empty activityImages batch gives activity
\* i the files of the batch from where the slice of activity i-1 ended, as
\* many as its declared imageCount (1 when it declares none, fewer when the
\* batch runs out).
C12_ActivitySlices ==
  (/\ Answered("create") /\ last.kind = "package" /\ last.status = 200
   /\ Len(last.batch) > 0)
    => /\ last.id \in DOMAIN packages
       /\ Len(packages[last.id].activities) = Len(last.declared)
       /\ \A i \in 1..Len(last.declared) :
            packages[last.id].activities[i].images =
              SubSeq(last.batch,
                     SliceEnd(last.declared, Len(last.batch), i - 1) + 1,
                     SliceEnd(last.declared, Len(last.batch), i))

\* The packages whose title the search text matches.
ByTitle(text) ==
  { id \in DOMAIN packages : Matches(packages[id].title, text) }

\* Those of them that pass the price range (when both ends are supplied)
\* and the day count (when supplied) of the query q.
Narrowed(q) ==
  { id \in ByTitle(q[1].v) :
      /\ (Truthy(q[2]) /\ Truthy(q[3]))
           => (q[2].v <= packages[id].price /\ packages[id].price <= q[3].v)
      /\ Truthy(q[4]) => packages[id].days = q[4].v }

\* C13: a package search with a title lists the packages that match the
\* title, the supplied price range and the supplied day count when there is
\* one, and otherwise exactly the packages that match the title; it lists
\* nothing only when no package matches the title, and without a title it
\* lists nothing.
C13_SearchFallback ==
  (Answered("search") /\ last.status = 200)
    => LET q == last.declared
       IN  IF Truthy(q[1])
             THEN /\ last.results = (IF Narrowed(q) # {} THEN Narrowed(q)
                                     ELSE ByTitle(q[1].v))
                  /\ last.results = {} => ByTitle(q[1].v) = {}
             ELSE last.results = {}

\* A search whose price range and day count no package with a matching title
\* passes, answered with the packages that match the title, while another
\* package does not match it.
C13_Witness ==
  /\ Answered("search") /\ last.status = 200
  /\ Truthy(last.declared[1])
  /\ Truthy(last.declared[2]) /\ Truthy(last.declared[3])
  /\ Narrowed(last.declared) = {}
  /\ last.results # {}
  /\ last.results # DOMAIN packages

\* C14: a hotel update changes only the fields its form carries: without an
\* existingImages field and without a file the images list stays as it was,
\* and without a title field the title stays as it was.
C14_HotelUpdateFrame ==
  [][(/\ last' # last
      /\ last'.route = "update" /\ last'.kind = "hotel" /\ last'.status = 200)
       => LET id == last'.id
          IN  /\ ("existingImages" \notin last'.fields /\ last'.uploaded = << >>)
                   => hotels'[id].images = hotels[id].images
              /\ "title" \notin last'.fields
                   => hotels'[id].title = hotels[id].title
    ]_vars

\* seq starts with the elements of pre, in their order.
IsPrefix(pre, seq) ==
  Len(pre) <= Len(seq) /\ SubSeq(seq, 1, Len(pre)) = pre

\* C15: a package update that succeeds, with no other update of the package
\* between its read and its write, removes no image and no activity: the
\* images persisted start with the images held before, the activities are as
\* many as before, and the images of every activity start with the images
\* that activity held before, whatever the form declares.
C15_UpdateKeepsImages ==
  [][\A r \in Reqs :
       (Writes(r) /\ upd[r].existing = packages[upd[r].id])
         => LET before == packages[upd[r].id]
                after == packages'[upd[r].id]
            IN  /\ IsPrefix(before.images, after.images)
                /\ Len(after.activities) = Len(before.activities)
                /\ \A i \in 1..Len(before.activities) :
                     IsPrefix(before.activities[i].images,
                              after.activities[i].images)
    ]_vars

\* A package whose first activity holds an image is being updated, alone,
\* by a request that carries an activityImages file and a form that lists
\* an image for that activity.
C15_Witness ==
  \E r \in Reqs :
    /\ upd[r].pc = "read"
    /\ \A o \in Reqs \ {r} : upd[o].pc = "idle"
    /\ upd[r].id \in DOMAIN packages
    /\ upd[r].existing = packages[upd[r].id]
    /\ Len(upd[r].existing.activities) > 0
    /\ Len(upd[r].existing.activities[1].images) > 0
    /\ Len(upd[r].actImages) > 0
    /\ upd[r].activities.k = "json"
    /\ Len(upd[r].activities.v) > 0
    /\ Len(upd[r].activities.v[1].images) > 0

====
